---- MODULE Spec2Model ----
(***************************************************************************)
(* Biocatalytic process simulator (src/biocatalytic_app.py).               *)
(*                                                                         *)
(* The kinetic model `model(t, y)` and the "Run Simulation" block that     *)
(* integrates it with solve_ivp, builds the result table and computes the  *)
(* final yield.                                                            *)
(*                                                                         *)
(* Number representation.  The program computes in IEEE doubles; the model *)
(* computes in fixed point with truncation toward zero (symmetric under    *)
(* negation, like floating-point rounding):                                *)
(*   concentrations HPA, GA, ERY, MBA, AP, ABT, feeds : units of 0.1 mM    *)
(*   AR (active-enzyme fraction)                      : units of 1e-5      *)
(*   TK_conc, TA_conc                                 : units of 1e-5 mM   *)
(*   flow_rate                                        : units of 0.1 /min  *)
(*   rates of the six concentrations                  : units of 0.01 mM/min *)
(*   rate of AR                                       : units of 1e-6 /min *)
(*   time_span                                        : minutes            *)
(*   solver time                                      : grid ticks, one    *)
(*       tick = time_span / (N_SAMPLES - 1) minutes                        *)
(* A division by zero gives a non-finite value (NaN or Inf), as numpy      *)
(* float64 division does; it raises nothing.                               *)
(***************************************************************************)
EXTENDS Integers, Sequences, FiniteSets, TLC

VARIABLES params, pc, y, f, t, t_old, y_old, f_old, h_abs, status, nrows,
          df_rows, yield_final, abt_final, nfev, nonfinite_seen

vars == <<params, pc, y, f, t, t_old, y_old, f_old, h_abs, status, nrows,
          df_rows, yield_final, abt_final, nfev, nonfinite_seen>>

\* params         the sidebar values of this script run (lines 12-21)
\* pc             where the script run is: "idle" (button not pressed),
\*                "solving" (inside solve_ivp), "hung" (solve_ivp never
\*                returns), "returned" (solve_ivp returned), "rendered"
\*                (table, metrics, plots and download written), "crashed"
\*                (an exception ended the script run)
\* y, f, t        the solver's state, derivative and time
\* t_old, y_old, f_old   the solver's dense output over its last step
\* h_abs          the solver's step size: "finite" or "nan"
\* status         the solver's status: "running", "finished", "failed"
\* nrows          len(sol.t): the t_eval points passed so far
\* df_rows        rows of the DataFrame df
\* yield_final, abt_final   the two metrics written at lines 96-97
\* nfev           calls of model so far: 0, 1, or 2 for "more than one"
\* nonfinite_seen some call of model returned NaN or Inf

----------------------------------------------------------------------------
(* Fixed-point helpers *)

Abs(x) == IF x < 0 THEN -x ELSE x

\* a / b rounded toward zero; b # 0
Trunc(a, b) == IF (a < 0) = (b < 0) THEN Abs(a) \div Abs(b) ELSE -(Abs(a) \div Abs(b))

----------------------------------------------------------------------------
(* Program constants, lines 23-41 *)

reactor_volume == 10    \* 1.0, in tenths
ERY0 == 0
AP0 == 0
ABT0 == 0
AR0 == 100000           \* 1, in units of 1e-5

Ka_TK == 132            \* 13.2, in tenths
Kia_TK == 422           \* 42.2, in tenths
Kb_TK == 161            \* 16.1, in tenths
Kib_TK == 5976          \* 597.6, in tenths
Kiq_TK == 5658          \* 565.8, in tenths
Kcat_TK == 5076
Km_MBA == 51            \* 0.51, in hundredths
Km_ERY == 955           \* 95.5, in tenths
kf == 951               \* 95.1, in tenths
kr == 120               \* 12.0, in tenths
Keq == 843
KtoxMax == 4833         \* 483.3, in tenths
KtoxHalf == 73570       \* 7.357e7 mM, in units of 1000 mM
N_SAMPLES == 300        \* np.linspace(0, time_span, 300)

Modes == {"batch", "fed-batch", "continuous"}

----------------------------------------------------------------------------
(* Bounds of the model *)

StepGrain == 50         \* solver steps are multiples of this many grid ticks
MaxStep == 100          \* the largest solver step, in grid ticks

\* The range of the model's numbers.  A double overflows to Inf beyond about
\* 1.8e308; the model's fixed-point values overflow beyond these magnitudes.
MaxConc == 600          \* concentrations, in 0.1 mM
MaxRate == 200000       \* rates of the concentrations, in 0.01 mM/min

StepSizes == {h \in 1..MaxStep : h % StepGrain = 0}

----------------------------------------------------------------------------
(* The kinetic model, lines 43-77.  yv = <<HPA, GA, ERY, MBA, AP, ABT, AR>>  *)

\* Vmax_TK = Kcat_TK * TK_conc * AR, in 0.001 mM/min
Vmax_TK(yv, p) == Trunc(Trunc(Kcat_TK * p.TK_conc, 100) * yv[7], AR0)

\* num_TK = Vmax_TK * HPA * GA, in 0.001 mM/min * (0.1 mM)^2
num_TK(yv, p) == Vmax_TK(yv, p) * yv[1] * yv[2]

\* (1 + X / K), in thousandths; X in 0.1 mM, K in tenths
OnePlus(X, K) == 1000 + Trunc(1000 * X, K)

\* denom_TK, in 0.1 * (0.1 mM)^2
denom_TK(yv) ==
    LET HPA == yv[1]
        GA  == yv[2]
        ERY == yv[3]
    IN  Trunc(Kb_TK * HPA * OnePlus(HPA, Kia_TK), 100)
      + Trunc(Ka_TK * GA * OnePlus(GA, Kib_TK), 100)
      + 10 * HPA * GA
      + Trunc(Trunc(10000 * Ka_TK, Kiq_TK) * GA * ERY, 1000)
      + Trunc(Ka_TK * Kib_TK, Kiq_TK) * ERY * 10

\* v_TK = num_TK / denom_TK, in 0.01 mM/min; meaningful when denom_TK # 0
v_TK(yv, p) == Trunc(num_TK(yv, p), denom_TK(yv))

\* Ktox = 483.3 * GA / (7.357e7 + GA), in 1e-6 /min
Ktox(yv) == Trunc(KtoxMax * 10 * yv[2], KtoxHalf + Trunc(yv[2], 10000))

\* dAR_dt = -Ktox * AR, in 1e-6 /min
dAR_dt(yv) == -Trunc(Ktox(yv) * yv[7], AR0)

\* Vmax_TA = kf * kr * TA_conc, in 0.001 mM/min
Vmax_TA(p) == Trunc(kf * kr * p.TA_conc, 10000)

\* driving_force = MBA * ERY - (ABT * AP) / Keq, in (0.1 mM)^2
driving_force(yv) == yv[4] * yv[3] - Trunc(yv[6] * yv[5], Keq)

\* denom_TA = Km_MBA*Km_ERY + Km_ERY*MBA + Km_MBA*ERY + MBA*ERY, in 0.1 * (0.1 mM)^2
denom_TA(yv) == Km_MBA * Km_ERY + Km_ERY * 10 * yv[4] + Km_MBA * yv[3] + 10 * yv[4] * yv[3]

\* v_TA = Vmax_TA * driving_force / denom_TA, in 0.01 mM/min; meaningful when denom_TA # 0
v_TA(yv, p) == Trunc(Vmax_TA(p) * driving_force(yv), denom_TA(yv))

\* (flow_rate / reactor_volume), in 0.001 /min
Dilution(p) == Trunc(1000 * p.flow_rate, reactor_volume)

\* (flow_rate / reactor_volume) * (feed_X - X), in 0.01 mM/min
FeedTerm(p, feed, X) == Trunc(Dilution(p) * (feed - X), 100)

\* (flow_rate / reactor_volume) * X, in 0.01 mM/min
OutTerm(p, X) == Trunc(Dilution(p) * X, 100)

\* a rate law divides by zero: the float result is NaN or Inf
Singular(yv) == denom_TK(yv) = 0 \/ denom_TA(yv) = 0

\* the state is in the range of the model's numbers
InBox(yv) == /\ \A i \in 1..6 : Abs(yv[i]) <= MaxConc
             /\ Abs(yv[7]) <= 2 * AR0

NonFinite == [finite |-> FALSE, d |-> <<0, 0, 0, 0, 0, 0, 0>>]

\* a fed-batch run that also loses its products through an outflow
ModeCorrection_FedBatchOutflow(yv, p) ==
    IF p.mode = "batch"
    THEN <<0, 0, 0, 0, 0, 0>>
    ELSE << FeedTerm(p, p.feed_HPA, yv[1]), FeedTerm(p, p.feed_GA, yv[2]),
            -OutTerm(p, yv[3]), -OutTerm(p, yv[4]),
            -OutTerm(p, yv[5]), -OutTerm(p, yv[6]) >>

\* the mode's correction of the six concentration rates, lines 66-75
ModeCorrection(yv, p) ==
    IF p.mode = "fed-batch"
    THEN << FeedTerm(p, p.feed_HPA, yv[1]), FeedTerm(p, p.feed_GA, yv[2]),
            0, 0, 0, 0 >>
    ELSE IF p.mode = "continuous"
    THEN << FeedTerm(p, p.feed_HPA, yv[1]), FeedTerm(p, p.feed_GA, yv[2]),
            -OutTerm(p, yv[3]), -OutTerm(p, yv[4]),
            -OutTerm(p, yv[5]), -OutTerm(p, yv[6]) >>
    ELSE <<0, 0, 0, 0, 0, 0>>

\* dGA_dt written with the wrong rate
BaseBalances_GAFromTA(vTK, vTA) == << -vTK, -vTA, vTK - vTA, -vTA, vTA, vTA >>

\* dAP_dt copied from the dERY_dt line
BaseBalances_APFromERY(vTK, vTA) == << -vTK, -vTK, vTK - vTA, -vTA, vTK - vTA, vTA >>

\* dMBA_dt written with the wrong rate
BaseBalances_MBAFromTK(vTK, vTA) == << -vTK, -vTK, vTK - vTA, -vTK, vTA, vTA >>

\* the base mass balances, lines 59-64
BaseBalances(vTK, vTA) == << -vTK, -vTK, vTK - vTA, -vTA, vTA, vTA >>

\* the six concentration rates, lines 59-75
Rates(yv, p) ==
    [i \in 1..6 |-> BaseBalances(v_TK(yv, p), v_TA(yv, p))[i] + ModeCorrection(yv, p)[i]]

\* model(t, y): the derivative vector, or a non-finite vector when a rate
\* law divided by zero or a value overflowed (NaN/Inf propagate through every
\* sum they enter)
model(yv, p) ==
    IF ~InBox(yv) THEN NonFinite
    ELSE IF Singular(yv) THEN NonFinite
    ELSE IF \E i \in 1..6 : Abs(Rates(yv, p)[i]) > MaxRate THEN NonFinite
    ELSE [finite |-> TRUE, d |-> Rates(yv, p) \o <<dAR_dt(yv)>>]

----------------------------------------------------------------------------
(* Inputs of the model *)

\* values the sidebar widgets are given in the model; number_input accepts
\* any number (negative ones too), the slider only 10..300
TK_concs == {32}
TA_concs == {300}
HPA0s == {0, 300}
GA0s == {0, 200}
MBA0s == {0, 100}
feed_HPAs == {0, 400}
feed_GAs == {0}
flow_rates == {0, 1, 4}
time_spans == {10}

ValidParams ==
    [mode : Modes, TK_conc : TK_concs, TA_conc : TA_concs, HPA0 : HPA0s,
     GA0 : GA0s, MBA0 : MBA0s, feed_HPA : feed_HPAs, feed_GA : feed_GAs,
     flow_rate : flow_rates, time_span : time_spans]

BaseParams ==
    [mode |-> "continuous", TK_conc |-> 32, TA_conc |-> 300, HPA0 |-> 300,
     GA0 |-> 200, MBA0 |-> 100, feed_HPA |-> 400, feed_GA |-> 0,
     flow_rate |-> 1, time_span |-> 10]

\* one negative entry per number_input
NegativeParams ==
    { [BaseParams EXCEPT !.TK_conc = -32],
      [BaseParams EXCEPT !.TA_conc = -300],
      [BaseParams EXCEPT !.HPA0 = -20],
      [BaseParams EXCEPT !.GA0 = -20],
      [BaseParams EXCEPT !.MBA0 = -20],
      [BaseParams EXCEPT !.feed_HPA = -20],
      [BaseParams EXCEPT !.feed_GA = -20],
      [BaseParams EXCEPT !.flow_rate = -4] }

ParamSets == ValidParams \cup NegativeParams

----------------------------------------------------------------------------
(* solve_ivp(model, (0, time_span), y0, t_eval=t_eval), line 82 *)

T_END == N_SAMPLES - 1  \* the grid tick of t_eval[-1] = time_span

\* t_eval[i] = i * time_span / (N_SAMPLES - 1); the numerator over N_SAMPLES - 1
t_eval(i, p) == i * p.time_span

\* change of a concentration (0.1 mM) over k ticks at rate r (0.01 mM/min)
IncConc(r, k, p) == Trunc(r * k * p.time_span, T_END * 10)

\* change of AR (1e-5) over k ticks at rate r (1e-6 /min)
IncAR(r, k, p) == Trunc(r * k * p.time_span, T_END * 10)

\* one explicit step of k ticks from yv along the derivative d
Advance(yv, d, k, p) ==
    [i \in 1..7 |-> IF i = 7 THEN yv[i] + IncAR(d[i], k, p)
                            ELSE yv[i] + IncConc(d[i], k, p)]

\* the step the solver takes from tick tt with step size h ends at t_bound at the latest
StepEnd(tt, h) == IF tt + h > T_END THEN T_END ELSE tt + h

\* the state a trial step of size h from tick tt would reach
Trial(yv, d, tt, h, p) == Advance(yv, d, StepEnd(tt, h) - tt, p)

\* a trial step is accepted when its error estimate is finite; the estimate
\* uses the derivative at the new point, so a step onto a state where the
\* model is non-finite is rejected and retried with a smaller step size
Accepted(yv, d, tt, h, p) == model(Trial(yv, d, tt, h, p), p).finite

\* y0, line 80
y0(p) == <<p.HPA0, p.GA0, ERY0, p.MBA0, AP0, ABT0, AR0>>

TypeDefault == <<0, 0, 0, 0, 0, 0, 0>>

NoYield == [k |-> "none", v |-> 0]

\* sol.y[5][-1] / MBA0 * 100, line 95: float division, in hundredths of a percent
Yield(abt, mba0) ==
    IF mba0 = 0
    THEN IF abt = 0 THEN [k |-> "nan", v |-> 0] ELSE [k |-> "inf", v |-> 0]
    ELSE [k |-> "finite", v |-> Trunc(abt * 10000, mba0)]

\* the row sol.y[:, i] for a tick i covered by the last accepted step: the
\* solver's dense output between t_old and t
Sample(i) == Advance(y_old, f_old, i - t_old, params)

\* the ticks whose rows the last accepted step appended to sol.t
LastTicks == IF nrows = 0 THEN {} ELSE {i \in t_old..t : i > t_old \/ t_old = 0}

Init ==
    /\ params \in ParamSets
    /\ pc = "idle"
    /\ y = TypeDefault
    /\ f = NonFinite
    /\ t = 0
    /\ t_old = 0
    /\ y_old = TypeDefault
    /\ f_old = TypeDefault
    /\ h_abs = "unset"
    /\ status = "none"
    /\ nrows = 0
    /\ df_rows = 0
    /\ yield_final = NoYield
    /\ abt_final = 0
    /\ nfev = 0
    /\ nonfinite_seen = FALSE

\* the button is pressed: y0 and t_eval are built and solve_ivp starts; the
\* solver evaluates model(t0, y0) and selects its first step size from it
RunSimulation ==
    /\ pc = "idle"
    /\ pc' = "solving"
    /\ y' = y0(params)
    /\ f' = model(y0(params), params)
    /\ h_abs' = IF model(y0(params), params).finite THEN "finite" ELSE "nan"
    /\ nonfinite_seen' = ~model(y0(params), params).finite
    /\ nfev' = 1
    /\ status' = "running"
    /\ t' = 0
    /\ UNCHANGED <<params, t_old, y_old, f_old, nrows, df_rows, yield_final, abt_final>>

\* one accepted solver step of h ticks, with the rows of the t_eval points it covers
SolverStep ==
    /\ pc = "solving"
    /\ h_abs = "finite"
    /\ \E h \in StepSizes :
         LET tn == StepEnd(t, h)
             yn == Advance(y, f.d, tn - t, params)
         IN  /\ Accepted(y, f.d, t, h, params)
             /\ y' = yn
             /\ f' = model(yn, params)
             /\ t' = tn
             /\ t_old' = t
             /\ y_old' = y
             /\ f_old' = f.d
             /\ nrows' = tn + 1
             /\ status' = IF tn = T_END THEN "finished" ELSE "running"
             /\ pc' = IF tn = T_END THEN "returned" ELSE "solving"
    /\ nfev' = 2
    /\ UNCHANGED <<params, h_abs, df_rows, yield_final, abt_final, nonfinite_seen>>

\* every trial step is rejected down to the smallest step size: the solver
\* gives up, solve_ivp breaks out of its loop and returns status -1 with the
\* rows collected so far
SolverFail ==
    /\ pc = "solving"
    /\ h_abs = "finite"
    /\ \A h \in StepSizes : ~Accepted(y, f.d, t, h, params)
    /\ status' = "failed"
    /\ pc' = "returned"
    /\ nonfinite_seen' = TRUE
    /\ nfev' = 2
    /\ UNCHANGED <<params, y, f, t, t_old, y_old, f_old, h_abs, nrows, df_rows,
                   yield_final, abt_final>>

\* the first derivative was non-finite, so the initial step size is NaN: no
\* trial step is ever accepted and the step size never falls below the
\* minimum, so the solver's step loop does not end
SolverHang ==
    /\ pc = "solving"
    /\ h_abs = "nan"
    /\ pc' = "hung"
    /\ UNCHANGED <<params, y, f, t, t_old, y_old, f_old, h_abs, status, nrows,
                   df_rows, yield_final, abt_final, nfev, nonfinite_seen>>

\* lines 84-97: the table is built from sol.t and sol.y whatever sol.status
\* is, and the yield from the last row; sol.y[0] of an empty result raises
Render ==
    /\ pc = "returned"
    /\ IF nrows = 0
       THEN /\ pc' = "crashed"
            /\ UNCHANGED <<df_rows, yield_final, abt_final>>
       ELSE /\ pc' = "rendered"
            /\ df_rows' = nrows
            /\ abt_final' = Sample(nrows - 1)[6]
            /\ yield_final' = Yield(Sample(nrows - 1)[6], params.MBA0)
    /\ UNCHANGED <<params, y, f, t, t_old, y_old, f_old, h_abs, status, nrows,
                   nfev, nonfinite_seen>>

Next == RunSimulation \/ SolverStep \/ SolverFail \/ SolverHang \/ Render

Spec == Init /\ [][Next]_vars

----------------------------------------------------------------------------
(* The kinetic model on its own: model(t, y) applied to state vectors and   *)
(* parameter sets drawn from bounded sets.                                  *)

KineticStates ==
    { <<a, b, c, d, e, g, r>> :
        a \in {0, 300}, b \in {-50, 0, 200}, c \in {0, 80}, d \in {0, 100},
        e \in {0, 30}, g \in {0, 40}, r \in {AR0, AR0 \div 2} }

KineticParams == {p \in ParamSets : p.HPA0 = 300 /\ p.GA0 = 200 /\ p.MBA0 = 100}

KineticInit ==
    /\ params \in KineticParams
    /\ y \in KineticStates
    /\ pc = "call"
    /\ f = NonFinite
    /\ t = 0
    /\ t_old = 0
    /\ y_old = TypeDefault
    /\ f_old = TypeDefault
    /\ h_abs = "unset"
    /\ status = "none"
    /\ nrows = 0
    /\ df_rows = 0
    /\ yield_final = NoYield
    /\ abt_final = 0
    /\ nfev = 0
    /\ nonfinite_seen = FALSE

\* one call model(t, y)
Evaluate ==
    /\ pc = "call"
    /\ f' = model(y, params)
    /\ nfev' = 1
    /\ nonfinite_seen' = ~model(y, params).finite
    /\ pc' = "evaluated"
    /\ UNCHANGED <<params, y, t, t_old, y_old, f_old, h_abs, status, nrows,
                   df_rows, yield_final, abt_final>>

KineticNext == Evaluate

KineticSpec == KineticInit /\ [][KineticNext]_vars

----------------------------------------------------------------------------
(* Properties *)

\* the sidebar values a run may be given according to the error-handling design
ValidParameters(p) ==
    /\ p.time_span > 0
    /\ p.TK_conc >= 0 /\ p.TA_conc >= 0
    /\ p.HPA0 >= 0 /\ p.GA0 >= 0 /\ p.MBA0 >= 0
    /\ p.feed_HPA >= 0 /\ p.feed_GA >= 0
    /\ p.flow_rate >= 0

\* the rows of the last accepted step, each with the row before it
RowPairs == {<<i - 1, i>> : i \in {j \in LastTicks : j > 0}}

\* the feed correction of the table in section 4.1, for HPA and GA
FeedCorrection(p, feed, X) ==
    IF p.mode = "batch" THEN 0 ELSE Trunc(Dilution(p) * (feed - X), 100)

\* the outflow correction of the table in section 4.1, for ERY, MBA, AP, ABT
OutflowCorrection(p, X) ==
    IF p.mode = "continuous" THEN -Trunc(Dilution(p) * X, 100) ELSE 0

\* C1: every finite derivative the kinetic model returns is the base mass
\* balance plus exactly the mode's correction: the feed term on HPA and GA in
\* fed-batch and continuous, the outflow term on ERY, MBA, AP, ABT in
\* continuous only, nothing in batch, and never a correction on dAR/dt.
C1_ModeCorrections ==
    (pc = "evaluated" /\ f.finite) =>
        LET vTK == v_TK(y, params)
            vTA == v_TA(y, params)
        IN  /\ f.d[1] = -vTK + FeedCorrection(params, params.feed_HPA, y[1])
            /\ f.d[2] = -vTK + FeedCorrection(params, params.feed_GA, y[2])
            /\ f.d[3] = (vTK - vTA) + OutflowCorrection(params, y[3])
            /\ f.d[4] = -vTA + OutflowCorrection(params, y[4])
            /\ f.d[5] = vTA + OutflowCorrection(params, y[5])
            /\ f.d[6] = vTA + OutflowCorrection(params, y[6])
            /\ f.d[7] = -Trunc(Ktox(y) * y[7], AR0)

\* C1 witness: a continuous-mode evaluation in which the feed term and every
\* outflow term is non-zero
C1_Witness ==
    /\ pc = "evaluated" /\ f.finite
    /\ params.mode = "continuous"
    /\ FeedCorrection(params, params.feed_HPA, y[1]) # 0
    /\ \A i \in 3..6 : OutflowCorrection(params, y[i]) # 0
    /\ v_TK(y, params) # 0 /\ v_TA(y, params) # 0

\* C2: a run with MBA0 = 0 is refused: it renders nothing and its yield is
\* never NaN or Inf.
C2_ZeroMBA0Rejected ==
    params.MBA0 = 0 => (pc # "rendered" /\ yield_final.k \notin {"nan", "inf"})

\* C3: once an evaluation of the kinetic model was non-finite, the run does
\* not hang and does not render a result as if nothing had happened.
C3_NonFiniteIsTerminalFailure ==
    nonfinite_seen => pc \notin {"hung", "rendered"}

\* C4: when the solver did not reach the end of the horizon, no table is
\* assembled and no yield is computed.
C4_NoPartialTrajectory ==
    status = "failed" => (pc # "rendered" /\ df_rows = 0 /\ yield_final.k = "none")

\* C5: for valid parameters every AR sample lies in [0, 1], no AR sample is
\* larger than the one before it, and dAR/dt <= 0 in every state the solver
\* accepts.
C5_ARNonIncreasing ==
    (ValidParameters(params) /\ pc \in {"solving", "returned", "rendered"}) =>
        /\ f.finite => f.d[7] <= 0
        /\ \A i \in LastTicks : Sample(i)[7] >= 0 /\ Sample(i)[7] <= AR0
        /\ \A r \in RowPairs : Sample(r[2])[7] <= Sample(r[1])[7]

\* C6: in batch mode dHPA/dt = dGA/dt in every state the solver accepts, and
\* HPA0 - HPA(t) = GA0 - GA(t) in every row.
C6_BatchDifferenceConstant ==
    (params.mode = "batch" /\ pc \in {"solving", "returned", "rendered"}) =>
        /\ f.finite => f.d[1] = f.d[2]
        /\ \A i \in LastTicks :
              params.HPA0 - Sample(i)[1] = params.GA0 - Sample(i)[2]

\* C6 witness: a finished batch run with HPA0 # GA0 in which HPA was consumed
C6_Witness ==
    /\ params.mode = "batch" /\ pc = "rendered" /\ df_rows = N_SAMPLES
    /\ params.HPA0 # params.GA0
    /\ Sample(T_END)[1] < params.HPA0

\* C7: in batch mode with MBA0 > 0, ABT = AP in every row, and both get the
\* same derivative in every state the solver accepts.
C7_BatchABTEqualsAP ==
    (params.mode = "batch" /\ params.MBA0 > 0
       /\ pc \in {"solving", "returned", "rendered"}) =>
        /\ f.finite => f.d[5] = f.d[6]
        /\ \A i \in LastTicks : Sample(i)[6] = Sample(i)[5]

\* C7 witness: a finished batch run with MBA0 > 0 that produced ABT
C7_Witness ==
    /\ params.mode = "batch" /\ params.MBA0 > 0
    /\ pc = "rendered" /\ df_rows = N_SAMPLES
    /\ Sample(T_END)[6] > 0

\* C8: every rendered table has N_SAMPLES rows whose times run from 0 to
\* time_span, and the yield is ABT of the row at time_span over MBA0.
C8_FullGridRendered ==
    pc = "rendered" =>
        /\ df_rows = N_SAMPLES
        /\ t_eval(0, params) = 0
        /\ t_eval(df_rows - 1, params) = T_END * params.time_span
        /\ \A i \in 1..(df_rows - 1) : t_eval(i - 1, params) < t_eval(i, params)
        /\ abt_final = y[6]
        /\ yield_final = Yield(y[6], params.MBA0)

\* C9: a run with a negative concentration or flow rate or a non-positive
\* horizon never evaluates the kinetic model and produces nothing.
C9_InvalidRejectedBeforeIntegrating ==
    ~ValidParameters(params) =>
        (nfev = 0 /\ pc \notin {"solving", "returned", "rendered", "hung"})

\* C10: in batch and fed-batch mode dMBA/dt + dABT/dt = 0 in every state the
\* solver accepts, MBA + ABT = MBA0 in every row, and ABT <= MBA0 in every
\* row whose MBA is non-negative.
C10_MBAPlusABTConserved ==
    (params.mode \in {"batch", "fed-batch"}
       /\ pc \in {"solving", "returned", "rendered"}) =>
        /\ f.finite => f.d[4] + f.d[6] = 0
        /\ \A i \in LastTicks :
              /\ Sample(i)[4] + Sample(i)[6] = params.MBA0
              /\ Sample(i)[4] >= 0 => Sample(i)[6] <= params.MBA0

\* C10 witness: a finished fed-batch run with a non-zero flow that produced ABT
C10_Witness ==
    /\ params.mode = "fed-batch" /\ params.flow_rate > 0
    /\ pc = "rendered" /\ df_rows = N_SAMPLES
    /\ Sample(T_END)[6] > 0

\* C10, continuous mode: the same conservation stated for continuous runs
\* with valid parameters; the outflow dilutes MBA and ABT, so it fails
C10_ContinuousConserved ==
    (params.mode = "continuous" /\ ValidParameters(params)
       /\ pc \in {"solving", "returned", "rendered"}) =>
        \A i \in LastTicks : Sample(i)[4] + Sample(i)[6] = params.MBA0

====
